---- MODULE Spec2Model ----
(***************************************************************************)
(* Review answer workflow of the climbing-gym admin server:                *)
(* ReviewService (service/review.py) over the center, review and review    *)
(* answer tables.  Every service method is one action; its guards are      *)
(* evaluated in the order of the source and every repository call it       *)
(* issues is logged in the order of the source.                            *)
(***************************************************************************)
EXTENDS Integers, Sequences, FiniteSets, Bags, TLC

VARIABLES centers, reviews, answers, last, requests, checked

vars == <<centers, reviews, answers, last, requests, checked>>

(***************************************************************************)
(* Bounds of the model.                                                    *)
(***************************************************************************)
\* most rows the answer table holds
MaxAnswerRows == 4
\* longest tag list of one review
MaxTags == 2

\* longest run of one character in a submitted string
MaxStrLen == 51
\* longest submitted list
MaxListLen == 11

\* (end - start).days above which a listing is refused
MaxRangeDays == 365

UserIds == {"u1", "u2"}
CenterIds == {"c1", "c2"}
\* "cX" is the id of no center, "rX" the id of no review
CenterIdArgs == CenterIds \cup {"cX"}
ReviewIdSeq == <<"r1", "r2", "r3">>
ReviewIds == {ReviewIdSeq[i] : i \in 1..Len(ReviewIdSeq)}
ReviewIdArgs == ReviewIds \cup {"rX"}
Contents == {"first", "second"}
Words == {"w1", "w2"}
StartDays == {0, 1}
RangeDeltas == {-1, 0, 1, MaxRangeDays, MaxRangeDays + 1}

\* Python's None
None == [none |-> TRUE]

TagLists == UNION {[1..n -> Words] : n \in 0..MaxTags}

(***************************************************************************)
(* Errors: the exception class, its ErrorCode and its message.             *)
(***************************************************************************)
NotFoundException(code, msg) ==
    [kind |-> "NotFoundException", code |-> code, msg |-> msg]

UnauthorizedException(code, msg) ==
    [kind |-> "UnauthorizedException", code |-> code, msg |-> msg]

BadRequestException(code, msg) ==
    [kind |-> "BadRequestException", code |-> code, msg |-> msg]

\* a raise: the transaction writes nothing
Raise(exc, calls) ==
    [ok |-> FALSE, error |-> exc, value |-> None, calls |-> calls, answers |-> answers]

\* a normal return, with the answer table as the method leaves it
Return(value, calls, table) ==
    [ok |-> TRUE, error |-> None, value |-> value, calls |-> calls, answers |-> table]

(***************************************************************************)
(* Repositories and entities.                                              *)
(***************************************************************************)
CenterRepository_find_by_id(center_id) ==
    IF \E c \in centers : c.id = center_id
    THEN CHOOSE c \in centers : c.id = center_id
    ELSE None

is_owner(center, user_id) == center.user_id = user_id

\* the answer table is a bag of rows: the primary key of a row is left out
ReviewAnswerRepository_find_by_review_id(review_id) ==
    IF \E a \in BagToSet(answers) : a.review_id = review_id
    THEN CHOOSE a \in BagToSet(answers) : a.review_id = review_id
    ELSE None

\* a review as the ORM loads it: its answer reference follows the answer table
ReviewEntity(r) ==
    LET a == ReviewAnswerRepository_find_by_review_id(r.id)
    IN  [id |-> r.id, center_id |-> r.center_id, tag |-> r.tag,
         answer_id |-> IF a = None THEN None ELSE [of |-> r.id]]

ReviewRepository_find_by_id_and_center_id(review_id, center_id) ==
    IF \E r \in reviews : r.id = review_id /\ r.center_id = center_id
    THEN ReviewEntity(CHOOSE r \in reviews : r.id = review_id /\ r.center_id = center_id)
    ELSE None

\* the center's reviews, as a list in primary-key order
RECURSIVE ReviewsFrom(_, _)
ReviewsFrom(i, center_id) ==
    IF i > Len(ReviewIdSeq) THEN <<>>
    ELSE LET here == {r \in reviews : r.id = ReviewIdSeq[i] /\ r.center_id = center_id}
         IN  (IF here = {} THEN <<>> ELSE <<ReviewEntity(CHOOSE r \in here : TRUE)>>)
             \o ReviewsFrom(i + 1, center_id)

ReviewRepository_find_all_by_center(center_id) == ReviewsFrom(1, center_id)

\* the paginated listing query
ReviewRepository_find_reviews_by_center(center_id, start, end) ==
    {r.id : r \in {x \in reviews : x.center_id = center_id}}

\* the new answer built without the request's content
ReviewAnswer_NoContent(content, review) == [review_id |-> review.id, content |-> ""]

\* new_answer = ReviewAnswer(content=dto.answer_content, review=review)
ReviewAnswer(content, review) == [review_id |-> review.id, content |-> content]

ReviewAnswerRepository_save(table, answer) == table (+) SetToBag({answer})

ReviewAnswerRepository_delete(table, answer) == table (-) SetToBag({answer})

\* ReviewAnswer.update: the row's content is replaced
ReviewAnswer_update(answer, content) == [answer EXCEPT !.content = content]

\* the session flushes an updated entity over its row
Flush(table, old, new) == (table (-) SetToBag({old})) (+) SetToBag({new})

ReviewAnswerResponseDto_from_entity(answer) ==
    [review_id |-> answer.review_id, content |-> answer.content]

(***************************************************************************)
(* ReviewService.                                                          *)
(***************************************************************************)
\* The messages are named in English after what the Korean text says.
\* a missing center reported as a bad request
CenterNotFound_BadRequest ==
    BadRequestException("DATA_DOES_NOT_EXIST", "center does not exist")

CenterNotFound ==
    NotFoundException("DATA_DOES_NOT_EXIST", "center does not exist")

NotCenterAdmin ==
    UnauthorizedException("NOT_ACCESSIBLE", "not the center admin")

WrongDateRangeError ==
    BadRequestException("WRONG_DATE_RANGE", "wrong date range")

ReviewNotFound ==
    NotFoundException("DATA_DOES_NOT_EXIST", "review not in center")

AnswerNotFound ==
    NotFoundException("DATA_DOES_NOT_EXIST", "answer does not exist")

\* the ownership guard left out
NotOwner_Off(center, subject) == FALSE

\* if not center.is_owner(subject.id)
NotOwner(center, subject) == ~is_owner(center, subject.id)

\* the review looked up by its id alone, whatever center it belongs to
ReviewOfCenter_AnyCenter(review_id, center) ==
    IF \E r \in reviews : r.id = review_id
    THEN ReviewEntity(CHOOSE r \in reviews : r.id = review_id)
    ELSE None

\* review_repository.find_by_id_and_center_id(session, review_id, center.id)
ReviewOfCenter(review_id, center) ==
    ReviewRepository_find_by_id_and_center_id(review_id, center.id)

\* the check for an existing answer left out
AnswerIsNotNone_Off(answer) == FALSE

\* if answer is not None
AnswerIsNotNone(answer) == answer # None

\* a range of exactly MaxRangeDays days refused as well
WrongDateRange_Inclusive(start, end) == (end - start) >= MaxRangeDays \/ (end - start) < 0

WrongDateRange(start, end) == (end - start) > MaxRangeDays \/ (end - start) < 0

find_reviews_by_center(subject, center_id, start, end) ==
    LET center == CenterRepository_find_by_id(center_id)
        c1 == <<"center.find_by_id">>
    IN  IF center = None
        THEN Raise(CenterNotFound, c1)
        ELSE IF NotOwner(center, subject)
        THEN Raise(NotCenterAdmin, c1)
        ELSE IF WrongDateRange(start, end)
        THEN Raise(WrongDateRangeError, c1)
        ELSE Return(ReviewRepository_find_reviews_by_center(center_id, start, end),
                    Append(c1, "review.find_reviews_by_center"), answers)

\* an existing answer reported with an error kind of its own
AnswerAlreadyExists_Conflict ==
    [kind |-> "ConflictException", code |-> "ROW_ALREADY_EXIST", msg |-> "answer already exists"]

\* an existing answer reported with the code of a missing row
AnswerAlreadyExists_WrongCode ==
    NotFoundException("DATA_DOES_NOT_EXIST", "answer already exists")

AnswerAlreadyExists ==
    NotFoundException("ROW_ALREADY_EXIST", "answer already exists")

\* create_review_answer with the review and its answer looked up before the ownership check
create_review_answer_LookupFirst(subject, dto, center_id, review_id) ==
    LET center == CenterRepository_find_by_id(center_id)
        c1 == <<"center.find_by_id">>
    IN  IF center = None
        THEN Raise(CenterNotFound, c1)
        ELSE
        LET review == ReviewOfCenter(review_id, center)
            c2 == Append(c1, "review.find_by_id_and_center_id")
        IN  IF review = None
            THEN Raise(ReviewNotFound, c2)
            ELSE IF NotOwner(center, subject)
            THEN Raise(NotCenterAdmin, c2)
            ELSE
            LET answer == ReviewAnswerRepository_find_by_review_id(review.id)
                c3 == Append(c2, "review_answer.find_by_review_id")
            IN  IF AnswerIsNotNone(answer)
                THEN Raise(AnswerAlreadyExists, c3)
                ELSE
                LET new_answer == ReviewAnswer(dto.answer_content, review)
                IN  Return(ReviewAnswerResponseDto_from_entity(new_answer),
                           Append(c3, "review_answer.save"),
                           ReviewAnswerRepository_save(answers, new_answer))

\* create_review_answer that saves the new answer before it looks for an existing one,
\* the row staying behind when the call then fails
create_review_answer_SaveFirst(subject, dto, center_id, review_id) ==
    LET center == CenterRepository_find_by_id(center_id)
        c1 == <<"center.find_by_id">>
    IN  IF center = None
        THEN Raise(CenterNotFound, c1)
        ELSE IF NotOwner(center, subject)
        THEN Raise(NotCenterAdmin, c1)
        ELSE
        LET review == ReviewOfCenter(review_id, center)
            c2 == Append(c1, "review.find_by_id_and_center_id")
        IN  IF review = None
            THEN Raise(ReviewNotFound, c2)
            ELSE
            LET answer == ReviewAnswerRepository_find_by_review_id(review.id)
                new_answer == ReviewAnswer(dto.answer_content, review)
                saved == ReviewAnswerRepository_save(answers, new_answer)
                c3 == c2 \o <<"review_answer.save", "review_answer.find_by_review_id">>
            IN  IF AnswerIsNotNone(answer)
                THEN [Raise(AnswerAlreadyExists, c3) EXCEPT !.answers = saved]
                ELSE Return(ReviewAnswerResponseDto_from_entity(new_answer), c3, saved)

create_review_answer(subject, dto, center_id, review_id) ==
    LET center == CenterRepository_find_by_id(center_id)
        c1 == <<"center.find_by_id">>
    IN  IF center = None
        THEN Raise(CenterNotFound, c1)
        ELSE IF NotOwner(center, subject)
        THEN Raise(NotCenterAdmin, c1)
        ELSE
        LET review == ReviewOfCenter(review_id, center)
            c2 == Append(c1, "review.find_by_id_and_center_id")
        IN  IF review = None
            THEN Raise(ReviewNotFound, c2)
            ELSE
            LET answer == ReviewAnswerRepository_find_by_review_id(review.id)
                c3 == Append(c2, "review_answer.find_by_review_id")
            IN  IF AnswerIsNotNone(answer)
                THEN Raise(AnswerAlreadyExists, c3)
                ELSE
                LET new_answer == ReviewAnswer(dto.answer_content, review)
                IN  Return(ReviewAnswerResponseDto_from_entity(new_answer),
                           Append(c3, "review_answer.save"),
                           ReviewAnswerRepository_save(answers, new_answer))

\* update_review_answer that saves a new answer when the review has none
update_review_answer_Upsert(subject, dto, center_id, review_id) ==
    LET center == CenterRepository_find_by_id(center_id)
        c1 == <<"center.find_by_id">>
    IN  IF center = None
        THEN Raise(CenterNotFound, c1)
        ELSE IF NotOwner(center, subject)
        THEN Raise(NotCenterAdmin, c1)
        ELSE
        LET review == ReviewOfCenter(review_id, center)
            c2 == Append(c1, "review.find_by_id_and_center_id")
        IN  IF review = None
            THEN Raise(ReviewNotFound, c2)
            ELSE
            LET answer == ReviewAnswerRepository_find_by_review_id(review.id)
                c3 == Append(c2, "review_answer.find_by_review_id")
            IN  IF answer = None
                THEN LET new_answer == ReviewAnswer(dto.answer_content, review)
                     IN  Return(ReviewAnswerResponseDto_from_entity(new_answer),
                                Append(c3, "review_answer.save"),
                                ReviewAnswerRepository_save(answers, new_answer))
                ELSE
                LET updated == ReviewAnswer_update(answer, dto.answer_content)
                IN  Return(ReviewAnswerResponseDto_from_entity(updated), c3,
                           Flush(answers, answer, updated))

update_review_answer(subject, dto, center_id, review_id) ==
    LET center == CenterRepository_find_by_id(center_id)
        c1 == <<"center.find_by_id">>
    IN  IF center = None
        THEN Raise(CenterNotFound, c1)
        ELSE IF NotOwner(center, subject)
        THEN Raise(NotCenterAdmin, c1)
        ELSE
        LET review == ReviewOfCenter(review_id, center)
            c2 == Append(c1, "review.find_by_id_and_center_id")
        IN  IF review = None
            THEN Raise(ReviewNotFound, c2)
            ELSE
            LET answer == ReviewAnswerRepository_find_by_review_id(review.id)
                c3 == Append(c2, "review_answer.find_by_review_id")
            IN  IF answer = None
                THEN Raise(AnswerNotFound, c3)
                ELSE
                LET updated == ReviewAnswer_update(answer, dto.answer_content)
                IN  Return(ReviewAnswerResponseDto_from_entity(updated), c3,
                           Flush(answers, answer, updated))

\* delete_review_answer that returns without the repository's delete
delete_review_answer_KeepsRow(subject, center_id, review_id) ==
    LET center == CenterRepository_find_by_id(center_id)
        c1 == <<"center.find_by_id">>
    IN  IF center = None
        THEN Raise(CenterNotFound, c1)
        ELSE IF NotOwner(center, subject)
        THEN Raise(NotCenterAdmin, c1)
        ELSE
        LET review == ReviewOfCenter(review_id, center)
            c2 == Append(c1, "review.find_by_id_and_center_id")
        IN  IF review = None
            THEN Raise(ReviewNotFound, c2)
            ELSE
            LET answer == ReviewAnswerRepository_find_by_review_id(review.id)
                c3 == Append(c2, "review_answer.find_by_review_id")
            IN  IF answer = None
                THEN Raise(AnswerNotFound, c3)
                ELSE Return(None, c3, answers)

delete_review_answer(subject, center_id, review_id) ==
    LET center == CenterRepository_find_by_id(center_id)
        c1 == <<"center.find_by_id">>
    IN  IF center = None
        THEN Raise(CenterNotFound, c1)
        ELSE IF NotOwner(center, subject)
        THEN Raise(NotCenterAdmin, c1)
        ELSE
        LET review == ReviewOfCenter(review_id, center)
            c2 == Append(c1, "review.find_by_id_and_center_id")
        IN  IF review = None
            THEN Raise(ReviewNotFound, c2)
            ELSE
            LET answer == ReviewAnswerRepository_find_by_review_id(review.id)
                c3 == Append(c2, "review_answer.find_by_review_id")
            IN  IF answer = None
                THEN Raise(AnswerNotFound, c3)
                ELSE Return(None, Append(c3, "review_answer.delete"),
                            ReviewAnswerRepository_delete(answers, answer))

\* collections.Counter over a list: every element of the list adds one to its key
RECURSIVE Counter(_)
Counter(xs) ==
    IF xs = <<>> THEN [k \in {} |-> 0]
    ELSE LET c == Counter(SubSeq(xs, 1, Len(xs) - 1))
             x == xs[Len(xs)]
         IN  IF x \in DOMAIN c THEN [c EXCEPT ![x] = @ + 1] ELSE c @@ (x :> 1)

\* Counter.__getitem__: a key that was never counted reads as 0
CounterGet(c, k) == IF k \in DOMAIN c THEN c[k] ELSE 0

\* sum(tags, []): the tag lists, concatenated
RECURSIVE SumLists(_)
SumLists(ls) == IF ls = <<>> THEN <<>> ELSE ls[1] \o SumLists(Tail(ls))

ReviewTagDto(tag, count) == [tag |-> tag, count |-> count]

ReviewSummaryResponseDto_from_entity(center, is_answer, tags) ==
    [center_id |-> center.id,
     count_answered |-> CounterGet(is_answer, TRUE),
     count_not_answered |-> CounterGet(is_answer, FALSE),
     tags |-> tags]

IsAnswerList(rs) == [i \in 1..Len(rs) |-> IF rs[i].answer_id = None THEN FALSE ELSE TRUE]

\* tags = review.tag in place of tags.append(review.tag): the last review's tags alone
TagList_LastReview(rs) == IF rs = <<>> THEN <<>> ELSE rs[Len(rs)].tag

TagList(rs) == SumLists([i \in 1..Len(rs) |-> rs[i].tag])

find_reviews_summary_by_center(subject, center_id) ==
    LET center == CenterRepository_find_by_id(center_id)
        c1 == <<"center.find_by_id">>
    IN  IF center = None
        THEN Raise(CenterNotFound, c1)
        ELSE IF NotOwner(center, subject)
        THEN Raise(NotCenterAdmin, c1)
        ELSE
        LET rs == ReviewRepository_find_all_by_center(center.id)
            is_answer == IsAnswerList(rs)
            tag_list == TagList(rs)
            counts == Counter(tag_list)
        IN  Return(ReviewSummaryResponseDto_from_entity(
                       center, Counter(is_answer),
                       {ReviewTagDto(t, counts[t]) : t \in DOMAIN counts}),
                   Append(c1, "review.find_all_by_center"), answers)

NoCall == [op |-> "none"]

\* the requests in flight: none while the calls run one after the other
Procs == {"p1", "p2"}

Idle == [pc |-> "idle"]

NoRequests == [p \in Procs |-> Idle]

\* the DTO under validation: none while the service is what runs
NotChecked == [dto |-> "none"]

Call(op, subject, center_id, review_id, content, start, end) ==
    [op |-> op, subject |-> subject, center_id |-> center_id, review_id |-> review_id,
     content |-> content, start |-> start, end |-> end]

\* the outcome of a call, kept with its arguments and the table it started from
Record(call, out) ==
    [call |-> call, before |-> answers, ok |-> out.ok, error |-> out.error,
     value |-> out.value, calls |-> out.calls]

\* where the reviews are: the first in c1, the last in c2, the others in either
Placements ==
    {p \in [ReviewIds -> CenterIds] :
        p[ReviewIdSeq[1]] = "c1" /\ p[ReviewIdSeq[Len(ReviewIdSeq)]] = "c2"}

FixedTags == [r \in ReviewIds |-> <<"w1">>]

Init ==
    /\ centers = {[id |-> "c1", user_id |-> "u1"], [id |-> "c2", user_id |-> "u2"]}
    /\ \E place \in Placements :
           reviews = {[id |-> r, center_id |-> place[r], tag |-> FixedTags[r]] : r \in ReviewIds}
    /\ answers = EmptyBag
    /\ last = [call |-> NoCall]
    /\ requests = NoRequests
    /\ checked = NotChecked

FindReviewsByCenter ==
    \E u \in UserIds, c \in CenterIdArgs, s \in StartDays, d \in RangeDeltas :
        LET out == find_reviews_by_center([id |-> u], c, s, s + d)
        IN  /\ last' = Record(Call("find_reviews_by_center", u, c, "", "", s, s + d), out)
            /\ answers' = out.answers
            /\ UNCHANGED <<centers, reviews, requests, checked>>

CreateReviewAnswer ==
    \E u \in UserIds, c \in CenterIdArgs, r \in ReviewIdArgs, t \in Contents :
        /\ BagCardinality(answers) < MaxAnswerRows
        /\ LET out == create_review_answer([id |-> u], [answer_content |-> t], c, r)
           IN  /\ last' = Record(Call("create_review_answer", u, c, r, t, 0, 0), out)
               /\ answers' = out.answers
               /\ UNCHANGED <<centers, reviews, requests, checked>>

UpdateReviewAnswer ==
    \E u \in UserIds, c \in CenterIdArgs, r \in ReviewIdArgs, t \in Contents :
        LET out == update_review_answer([id |-> u], [answer_content |-> t], c, r)
        IN  /\ last' = Record(Call("update_review_answer", u, c, r, t, 0, 0), out)
            /\ answers' = out.answers
            /\ UNCHANGED <<centers, reviews, requests, checked>>

DeleteReviewAnswer ==
    \E u \in UserIds, c \in CenterIdArgs, r \in ReviewIdArgs :
        LET out == delete_review_answer([id |-> u], c, r)
        IN  /\ last' = Record(Call("delete_review_answer", u, c, r, "", 0, 0), out)
            /\ answers' = out.answers
            /\ UNCHANGED <<centers, reviews, requests, checked>>

FindReviewsSummaryByCenter ==
    \E u \in UserIds, c \in CenterIdArgs :
        LET out == find_reviews_summary_by_center([id |-> u], c)
        IN  /\ last' = Record(Call("find_reviews_summary_by_center", u, c, "", "", 0, 0), out)
            /\ answers' = out.answers
            /\ UNCHANGED <<centers, reviews, requests, checked>>

Next ==
    \/ FindReviewsByCenter
    \/ CreateReviewAnswer
    \/ UpdateReviewAnswer
    \/ DeleteReviewAnswer
    \/ FindReviewsSummaryByCenter

Spec == Init /\ [][Next]_vars

(***************************************************************************)
(* The summary alone, over every tag list and every set of answered        *)
(* reviews.                                                                *)
(***************************************************************************)
InitSummary ==
    /\ centers = {[id |-> "c1", user_id |-> "u1"], [id |-> "c2", user_id |-> "u2"]}
    /\ \E place \in Placements, tags \in [ReviewIds -> TagLists] :
           reviews = {[id |-> r, center_id |-> place[r], tag |-> tags[r]] : r \in ReviewIds}
    /\ \E answered \in SUBSET ReviewIds :
           answers = SetToBag({[review_id |-> r, content |-> "first"] : r \in answered})
    /\ last = [call |-> NoCall]
    /\ requests = NoRequests
    /\ checked = NotChecked

NextSummary == FindReviewsSummaryByCenter

SpecSummary == InitSummary /\ [][NextSummary]_vars

(***************************************************************************)
(* create_review_answer as concurrent requests: every await of the method  *)
(* is a step of its own, and the steps of two requests interleave.  Each   *)
(* request has its own session; a saved row is in the table from the save  *)
(* on.                                                                     *)
(***************************************************************************)
InitConcurrent ==
    /\ centers = {[id |-> "c1", user_id |-> "u1"], [id |-> "c2", user_id |-> "u2"]}
    /\ \E place \in Placements :
           reviews = {[id |-> r, center_id |-> place[r], tag |-> FixedTags[r]] : r \in ReviewIds}
    /\ answers = EmptyBag
    /\ last = [call |-> NoCall]
    /\ requests = NoRequests
    /\ checked = NotChecked

Failure(req, exc) ==
    [pc |-> "done", subject |-> req.subject, dto |-> req.dto, center_id |-> req.center_id,
     review_id |-> req.review_id, ok |-> FALSE, error |-> exc]

\* a request arrives
Begin(p) ==
    /\ requests[p].pc = "idle"
    /\ \E u \in UserIds, c \in CenterIdArgs, r \in ReviewIdArgs, t \in Contents :
           requests' = [requests EXCEPT ![p] =
               [pc |-> "center", subject |-> [id |-> u], dto |-> [answer_content |-> t],
                center_id |-> c, review_id |-> r]]
    /\ UNCHANGED <<centers, reviews, answers, last, checked>>

\* await center_repository.find_by_id, and the two guards on its result
AwaitCenter(p) ==
    LET req == requests[p]
        center == CenterRepository_find_by_id(req.center_id)
    IN  /\ req.pc = "center"
        /\ requests' = [requests EXCEPT ![p] =
               IF center = None THEN Failure(req, CenterNotFound)
               ELSE IF NotOwner(center, req.subject) THEN Failure(req, NotCenterAdmin)
               ELSE [pc |-> "review", subject |-> req.subject, dto |-> req.dto,
                     center_id |-> req.center_id, review_id |-> req.review_id,
                     center |-> center]]
        /\ UNCHANGED <<centers, reviews, answers, last, checked>>

\* await review_repository.find_by_id_and_center_id, and the guard on its result
AwaitReview(p) ==
    LET req == requests[p]
        review == ReviewOfCenter(req.review_id, req.center)
    IN  /\ req.pc = "review"
        /\ requests' = [requests EXCEPT ![p] =
               IF review = None THEN Failure(req, ReviewNotFound)
               ELSE [pc |-> "answer", subject |-> req.subject, dto |-> req.dto,
                     center_id |-> req.center_id, review_id |-> req.review_id,
                     review |-> review]]
        /\ UNCHANGED <<centers, reviews, answers, last, checked>>

\* await review_answer_repository.find_by_review_id, and the guard on its result
AwaitAnswer(p) ==
    LET req == requests[p]
        answer == ReviewAnswerRepository_find_by_review_id(req.review.id)
    IN  /\ req.pc = "answer"
        /\ requests' = [requests EXCEPT ![p] =
               IF AnswerIsNotNone(answer) THEN Failure(req, AnswerAlreadyExists)
               ELSE [pc |-> "save", subject |-> req.subject, dto |-> req.dto,
                     center_id |-> req.center_id, review_id |-> req.review_id,
                     review |-> req.review]]
        /\ UNCHANGED <<centers, reviews, answers, last, checked>>

\* await review_answer_repository.save, and the return
AwaitSave(p) ==
    LET req == requests[p]
        new_answer == ReviewAnswer(req.dto.answer_content, req.review)
    IN  /\ req.pc = "save"
        /\ BagCardinality(answers) < MaxAnswerRows
        /\ answers' = ReviewAnswerRepository_save(answers, new_answer)
        /\ requests' = [requests EXCEPT ![p] =
               [pc |-> "done", subject |-> req.subject, dto |-> req.dto,
                center_id |-> req.center_id, review_id |-> req.review_id,
                ok |-> TRUE, value |-> ReviewAnswerResponseDto_from_entity(new_answer)]]
        /\ UNCHANGED <<centers, reviews, last, checked>>

NextConcurrent ==
    \E p \in Procs :
        \/ Begin(p)
        \/ AwaitCenter(p)
        \/ AwaitReview(p)
        \/ AwaitAnswer(p)
        \/ AwaitSave(p)

SpecConcurrent == InitConcurrent /\ [][NextConcurrent]_vars

(***************************************************************************)
(* The validators of CenterHoldDto and CenterRequestDto (model/center.py). *)
(* A string is [str |-> its characters], a list is [list |-> its items],   *)
(* an absent value is None.  A validator returns a value or raises.        *)
(***************************************************************************)
Returned(value) == [kind |-> "returned", value |-> value]

ValueError(msg) == [kind |-> "ValueError", msg |-> msg]

\* what indexing an empty string raises
IndexError == [kind |-> "IndexError", msg |-> "string index out of range"]

\* what re.match raises for a value that is no string
TypeError == [kind |-> "TypeError", msg |-> "expected string or bytes-like object"]

len(value) == IF "str" \in DOMAIN value THEN Len(value.str) ELSE Len(value.list)

LowerChars == {"a", "z"}
UpperChars == {"A", "Z"}
\* stand-ins for the characters from KOR_BEGIN_CODE to KOR_END_CODE
KorChars == {"ga", "hih"}
DigitChars == {"0", "1", "2", "3", "4", "5", "6", "7", "8", "9"}

\* ('a' <= c <= 'z') or ('A' <= c <= 'Z') or (KOR_BEGIN_CODE <= ord(c) <= KOR_END_CODE) or c.isdigit()
IsNameChar(c) == c \in LowerChars \/ c \in UpperChars \/ c \in KorChars \/ c \in DigitChars

\* CenterHoldDto.validate_difficulty
CenterHoldDto_validate_difficulty(value) ==
    IF len(value) < 2 \/ len(value) > 10
    THEN ValueError("hold difficulty: 1 to 10 characters")
    ELSE Returned(value)

\* CenterHoldDto.validate_name
CenterHoldDto_validate_name(value) ==
    IF len(value) < 2 \/ len(value) > 10
    THEN ValueError("hold name: 1 to 10 characters")
    ELSE Returned(value)

\* CenterRequestDto.validate_name
validate_name(value) ==
    IF \E i \in 1..len(value) : ~IsNameChar(value.str[i])
    THEN ValueError("center name: Korean, English letters and digits only")
    ELSE IF len(value) < 2 \/ len(value) > 50
    THEN ValueError("center name: 2 to 50 characters")
    ELSE Returned(value)

AllDigits(s, from, to) == \A i \in from..to : s[i] \in DigitChars

\* re.match(r'^(0)\d{1,2}-\d{3,4}-\d{4}$', value)
MatchesTel(s) ==
    \E i, j \in 1..Len(s) :
        /\ i < j
        /\ s[i] = "-" /\ s[j] = "-"
        /\ i - 1 \in 2..3 /\ s[1] = "0" /\ AllDigits(s, 2, i - 1)
        /\ j - i - 1 \in 3..4 /\ AllDigits(s, i + 1, j - 1)
        /\ Len(s) - j = 4 /\ AllDigits(s, j + 1, Len(s))

\* CenterRequestDto.validate_tel (pre=True, always=True)
validate_tel(value) ==
    IF value = None THEN TypeError
    ELSE IF ~MatchesTel(value.str)
    THEN ValueError("telephone number: wrong format")
    ELSE Returned(value)

\* CenterRequestDto.validate_instagram_name
validate_instagram_name(value) ==
    IF value = None THEN Returned(value)
    ELSE IF \E i \in 1..len(value) : ~IsNameChar(value.str[i])
    THEN ValueError("instagram name: Korean, English letters and digits only")
    ELSE IF len(value) < 3 \/ len(value) > 30
    THEN ValueError("instagram name: 3 to 30 characters")
    ELSE Returned(value)

\* CenterRequestDto.validate_youtube_code: value[0] of an empty string raises IndexError,
\* and the function ends without a return statement, which returns None
validate_youtube_code(value) ==
    IF value = None THEN Returned(value)
    ELSE IF len(value) = 0 THEN IndexError
    ELSE IF value.str[1] # "@"
    THEN ValueError("youtube channel code: must start with @")
    ELSE Returned(None)

\* CenterRequestDto.validate_image_list
validate_image_list(value) ==
    IF len(value) > 10 THEN ValueError("at most 10 images") ELSE Returned(value)

\* CenterRequestDto.validate_fee_image_list
validate_fee_image_list(value) ==
    IF len(value) > 5 THEN ValueError("at most 10 fee images") ELSE Returned(value)

\* CenterRequestDto.validate_operating_time_list
validate_operating_time_list(value) ==
    IF len(value) > 8 THEN ValueError("at most 8 operating times") ELSE Returned(value)

\* CenterRequestDto.validate_proof_list
validate_proof_list(value) ==
    IF len(value) > 5 THEN ValueError("at most 5 proofs") ELSE Returned(value)

CenterRequestDto_validate(field, value) ==
    CASE field = "name" -> validate_name(value)
      [] field = "tel" -> validate_tel(value)
      [] field = "instagram_name" -> validate_instagram_name(value)
      [] field = "youtube_code" -> validate_youtube_code(value)
      [] field = "image_list" -> validate_image_list(value)
      [] field = "fee_image_list" -> validate_fee_image_list(value)
      [] field = "operating_time_list" -> validate_operating_time_list(value)
      [] field = "proof_list" -> validate_proof_list(value)

CenterHoldDto_validate(field, value) ==
    CASE field = "difficulty" -> CenterHoldDto_validate_difficulty(value)
      [] field = "name" -> CenterHoldDto_validate_name(value)

\* n times the character c
Rep(n, c) == [i \in 1..n |-> c]

Str(s) == [str |-> s]

\* the submitted strings: a run of one character, bare or after a first character
StringInputs ==
    {Str(first \o Rep(n, c)) :
        first \in {<<>>, <<"@">>, <<"a">>}, c \in {"a", "Z", "ga", "7", "@"}, n \in 0..MaxStrLen}

\* the submitted telephone numbers: three runs of digits, the first after 0 or not
TelInputs ==
    {Str(a \o <<"-">> \o Rep(m, "7") \o <<"-">> \o Rep(n, "3")) :
        a \in {<<"0">> \o Rep(k, "1") : k \in 0..3} \cup {<<"1", "0">>},
        m \in 2..5, n \in 3..5}

ListInputs == {[list |-> Rep(n, "item")] : n \in 0..MaxListLen}

StringFields == {"name", "tel", "instagram_name", "youtube_code"}
OptionalFields == {"tel", "instagram_name", "youtube_code"}
ListFields == {"image_list", "fee_image_list", "operating_time_list", "proof_list"}

InputsOf(field) ==
    (IF field \in StringFields THEN StringInputs ELSE ListInputs)
    \cup (IF field = "tel" THEN TelInputs ELSE {})
    \cup (IF field \in OptionalFields THEN {None} ELSE {})

Checked(dto, field, value, outcome) ==
    [dto |-> dto, field |-> field, value |-> value, outcome |-> outcome]

\* a DTO is validated once, when it is constructed from the request
ValidateCenterHoldDto ==
    /\ checked = NotChecked
    /\ \E field \in {"difficulty", "name"}, value \in StringInputs :
           checked' = Checked("CenterHoldDto", field, value,
                              CenterHoldDto_validate(field, value))
    /\ UNCHANGED <<centers, reviews, answers, last, requests>>

ValidateCenterRequestDto ==
    /\ checked = NotChecked
    /\ \E field \in StringFields \cup ListFields :
           \E value \in InputsOf(field) :
               checked' = Checked("CenterRequestDto", field, value,
                                  CenterRequestDto_validate(field, value))
    /\ UNCHANGED <<centers, reviews, answers, last, requests>>

NextValidation == ValidateCenterHoldDto \/ ValidateCenterRequestDto

SpecValidation == Init /\ [][NextValidation]_vars

(***************************************************************************)
(* What the claims speak about.                                            *)
(***************************************************************************)
Operations ==
    {"find_reviews_by_center", "create_review_answer", "update_review_answer",
     "delete_review_answer", "find_reviews_summary_by_center"}

AnswerOperations ==
    {"create_review_answer", "update_review_answer", "delete_review_answer"}

Called == last.call.op \in Operations

CenterExists(c) == \E x \in centers : x.id = c

OwnerOf(c) == (CHOOSE x \in centers : x.id = c).user_id

ByOwner == CenterExists(last.call.center_id) /\ OwnerOf(last.call.center_id) = last.call.subject

ByNonOwner == CenterExists(last.call.center_id) /\ OwnerOf(last.call.center_id) # last.call.subject

InCenter(r, c) == \E x \in reviews : x.id = r /\ x.center_id = c

\* the number of answer rows of review r in a table
CountOf(table, r) ==
    LET rows == {a \in BagToSet(table) : a.review_id = r}
    IN  BagCardinality([a \in rows |-> table[a]])

\* two tables hold the same rows for every review but r
SameElsewhere(t1, t2, r) ==
    \A a \in BagToSet(t1) \cup BagToSet(t2) :
        a.review_id # r => CopiesIn(a, t1) = CopiesIn(a, t2)

Failed(kind, code) == ~last.ok /\ last.error.kind = kind /\ last.error.code = code

(***************************************************************************)
(* C1: create_review_answer by the owner of an existing center, for a      *)
(* review of that center that has no answer, inserts exactly one answer    *)
(* row for that review, with the content of the request, and returns a     *)
(* response whose review_id is that review's id; the answers of all other  *)
(* reviews are as before.                                                  *)
(***************************************************************************)
C1_Case ==
    /\ last.call.op = "create_review_answer"
    /\ ByOwner
    /\ InCenter(last.call.review_id, last.call.center_id)
    /\ CountOf(last.before, last.call.review_id) = 0

C1_CreateInsertsOne ==
    C1_Case =>
        /\ last.ok
        /\ last.value.review_id = last.call.review_id
        /\ CountOf(answers, last.call.review_id) = 1
        /\ CopiesIn([review_id |-> last.call.review_id, content |-> last.call.content],
                    answers) = 1
        /\ SameElsewhere(answers, last.before, last.call.review_id)

\* reached: a create that succeeds while another review already has an answer
C1_Witness ==
    /\ C1_Case
    /\ last.ok
    /\ \E r \in ReviewIds : r # last.call.review_id /\ CountOf(last.before, r) = 1

(***************************************************************************)
(* C2: whatever create, update and delete calls were made, by whomever and *)
(* however they ended, every review has at most one answer.                *)
(***************************************************************************)
C2_AtMostOneAnswer == \A r \in ReviewIds : CountOf(answers, r) <= 1

\* reached: a second create for an answered review was tried and refused
C2_Witness ==
    /\ last.call.op = "create_review_answer"
    /\ ByOwner
    /\ InCenter(last.call.review_id, last.call.center_id)
    /\ CountOf(last.before, last.call.review_id) = 1
    /\ CountOf(answers, last.call.review_id) = 1

(***************************************************************************)
(* C3: in each of the five operations, an existing center and a requester  *)
(* who is not its owner give UnauthorizedException with NOT_ACCESSIBLE:    *)
(* nothing is listed or summarised, and no answer is created, updated or   *)
(* deleted.                                                                *)
(***************************************************************************)
C3_NonOwnerRejected ==
    (Called /\ ByNonOwner) =>
        /\ Failed("UnauthorizedException", "NOT_ACCESSIBLE")
        /\ last.value = None
        /\ answers = last.before

\* reached: a non-owner tries to delete the answer of an answered review of the center
C3_Witness ==
    /\ last.call.op = "delete_review_answer"
    /\ ByNonOwner
    /\ InCenter(last.call.review_id, last.call.center_id)
    /\ CountOf(last.before, last.call.review_id) = 1

(***************************************************************************)
(* C4 as stated: create_review_answer by the owner for a review of the     *)
(* center that already has an answer fails with a conflict error carrying  *)
(* ROW_ALREADY_EXIST, and the answer table is left as it was.              *)
(***************************************************************************)
C4_Case ==
    /\ last.call.op = "create_review_answer"
    /\ ByOwner
    /\ InCenter(last.call.review_id, last.call.center_id)
    /\ CountOf(last.before, last.call.review_id) >= 1

C4_Original ==
    C4_Case =>
        /\ Failed("ConflictException", "ROW_ALREADY_EXIST")
        /\ answers = last.before

(***************************************************************************)
(* C4 as amended: the call fails with NotFoundException carrying           *)
(* ROW_ALREADY_EXIST (the error kind is not-found, there is no conflict    *)
(* kind), and the answer table is left as it was: no second row, the       *)
(* content of the existing answer unchanged.                               *)
(***************************************************************************)
C4_AlreadyAnswered ==
    C4_Case =>
        /\ Failed("NotFoundException", "ROW_ALREADY_EXIST")
        /\ answers = last.before
        /\ CountOf(answers, last.call.review_id) = 1

\* reached: a create with another content than the one the existing answer has
C4_Witness ==
    /\ C4_Case
    /\ CopiesIn([review_id |-> last.call.review_id, content |-> last.call.content],
                last.before) = 0

(***************************************************************************)
(* C5: in each of the five operations, a center_id of no center gives      *)
(* NotFoundException with DATA_DOES_NOT_EXIST, whatever the other          *)
(* arguments are, and the answer table is left as it was.                  *)
(***************************************************************************)
C5_CenterMissing ==
    (Called /\ ~CenterExists(last.call.center_id)) =>
        /\ Failed("NotFoundException", "DATA_DOES_NOT_EXIST")
        /\ last.error = CenterNotFound
        /\ answers = last.before

\* reached: an update for an answered review, sent with the id of no center
C5_Witness ==
    /\ last.call.op = "update_review_answer"
    /\ ~CenterExists(last.call.center_id)
    /\ CountOf(last.before, last.call.review_id) = 1

(***************************************************************************)
(* C6: create, update and delete by the owner of an existing center give   *)
(* NotFoundException with DATA_DOES_NOT_EXIST when the review_id is not a  *)
(* review of that center, also when it is a review of another center; the  *)
(* answer table is left as it was.                                         *)
(***************************************************************************)
C6_Case ==
    /\ last.call.op \in AnswerOperations
    /\ ByOwner
    /\ ~InCenter(last.call.review_id, last.call.center_id)

C6_ReviewNotOfCenter ==
    C6_Case =>
        /\ Failed("NotFoundException", "DATA_DOES_NOT_EXIST")
        /\ last.error = ReviewNotFound
        /\ answers = last.before

\* reached: an owner tries to delete the answer of an answered review of another center
C6_Witness ==
    /\ C6_Case
    /\ last.call.op = "delete_review_answer"
    /\ \E x \in reviews : x.id = last.call.review_id
    /\ CountOf(last.before, last.call.review_id) = 1

(***************************************************************************)
(* C7: an error of a service operation is a NotFoundException, an          *)
(* UnauthorizedException or a BadRequestException and nothing else; the    *)
(* guard for a missing record (center, review of the center, answer)       *)
(* raises not-found and is raised only when that record is missing, the    *)
(* ownership guard raises unauthorized and only for a non-owner, the date  *)
(* range guard raises bad-request and only for an invalid range.  (The     *)
(* remaining guard, for an answer that exists already, raises not-found    *)
(* too.)                                                                   *)
(***************************************************************************)
ErrorKinds == {"NotFoundException", "UnauthorizedException", "BadRequestException"}

InvalidRange == last.call.end < last.call.start \/ last.call.end > last.call.start + 365

ReviewsOfCenter(c) == {r \in reviews : r.center_id = c}

\* the occurrences of word w: the positions of the center's tag lists that hold it
Occurrences(c, w) ==
    UNION {{<<r.id, i>> : i \in {j \in DOMAIN r.tag : r.tag[j] = w}} : r \in ReviewsOfCenter(c)}

C8_Case == last.call.op = "find_reviews_summary_by_center" /\ ByOwner

C8_SummaryCounts ==
    C8_Case =>
        LET c == last.call.center_id
            answered == {r \in ReviewsOfCenter(c) : CountOf(answers, r.id) >= 1}
        IN  /\ last.ok
            /\ last.value.count_answered = Cardinality(answered)
            /\ last.value.count_not_answered = Cardinality(ReviewsOfCenter(c) \ answered)
            /\ last.value.count_answered + last.value.count_not_answered
                   = Cardinality(ReviewsOfCenter(c))
            /\ \A t \in last.value.tags : t.tag \in Words
            /\ \A w \in Words :
                   LET n == Cardinality(Occurrences(c, w))
                       reported == {t \in last.value.tags : t.tag = w}
                   IN  IF n = 0 THEN reported = {}
                       ELSE reported = {[tag |-> w, count |-> n]}

\* reached: a summary of a center with an answered and an unanswered review, where a
\* word occurs twice in one review's tags and again in another review's
C8_Witness ==
    /\ C8_Case
    /\ \E r1, r2 \in ReviewsOfCenter(last.call.center_id), w \in Words :
           /\ r1 # r2
           /\ CountOf(answers, r1.id) = 1
           /\ CountOf(answers, r2.id) = 0
           /\ Cardinality({j \in DOMAIN r1.tag : r1.tag[j] = w}) = 2
           /\ \E j \in DOMAIN r2.tag : r2.tag[j] = w

(***************************************************************************)
(* C9: find_reviews_by_center by the owner of an existing center fails     *)
(* with BadRequestException carrying WRONG_DATE_RANGE exactly when end is  *)
(* before start or more than 365 days after it; otherwise (0 days and 365  *)
(* days included) the repository query is issued.                          *)
(***************************************************************************)
C9_Case == last.call.op = "find_reviews_by_center" /\ ByOwner

C9_DateRange ==
    C9_Case =>
        /\ Failed("BadRequestException", "WRONG_DATE_RANGE") <=> InvalidRange
        /\ ~InvalidRange =>
               /\ last.ok
               /\ last.calls[Len(last.calls)] = "review.find_reviews_by_center"
        /\ InvalidRange => \A i \in DOMAIN last.calls : last.calls[i] = "center.find_by_id"

\* reached: a range of exactly 365 days, accepted
C9_Witness ==
    /\ C9_Case
    /\ last.call.end - last.call.start = 365
    /\ last.ok

(***************************************************************************)
(* C10: the guards are evaluated in the order center exists, requester is  *)
(* owner, (date range valid | review in center), answer exists / does not  *)
(* exist, and the first violated one decides the error; a non-owner of an  *)
(* existing center gets UnauthorizedException (NOT_ACCESSIBLE) whatever    *)
(* the other arguments are, and the review and answer repositories are     *)
(* consulted only after the ownership check has passed.                    *)
(***************************************************************************)
\* the message of the first violated guard, "" when none is violated
FirstViolated ==
    LET op == last.call.op
        c == last.call.center_id
        r == last.call.review_id
    IN  IF ~CenterExists(c) THEN "center does not exist"
        ELSE IF OwnerOf(c) # last.call.subject THEN "not the center admin"
        ELSE IF op = "find_reviews_by_center"
        THEN (IF InvalidRange THEN "wrong date range" ELSE "")
        ELSE IF op = "find_reviews_summary_by_center" THEN ""
        ELSE IF ~InCenter(r, c) THEN "review not in center"
        ELSE IF op = "create_review_answer"
        THEN (IF CountOf(last.before, r) >= 1 THEN "answer already exists" ELSE "")
        ELSE (IF CountOf(last.before, r) = 0 THEN "answer does not exist" ELSE "")

\* the repository calls of an operation, in the order the guards need them
CallOrder(op) ==
    CASE op = "find_reviews_by_center" ->
             <<"center.find_by_id", "review.find_reviews_by_center">>
      [] op = "find_reviews_summary_by_center" ->
             <<"center.find_by_id", "review.find_all_by_center">>
      [] op = "create_review_answer" ->
             <<"center.find_by_id", "review.find_by_id_and_center_id",
               "review_answer.find_by_review_id", "review_answer.save">>
      [] op = "update_review_answer" ->
             <<"center.find_by_id", "review.find_by_id_and_center_id",
               "review_answer.find_by_review_id">>
      [] op = "delete_review_answer" ->
             <<"center.find_by_id", "review.find_by_id_and_center_id",
               "review_answer.find_by_review_id", "review_answer.delete">>

C10_GuardOrder ==
    Called =>
        /\ last.ok <=> FirstViolated = ""
        /\ ~last.ok => last.error.msg = FirstViolated
        /\ ByNonOwner => Failed("UnauthorizedException", "NOT_ACCESSIBLE")
        /\ Len(last.calls) <= Len(CallOrder(last.call.op))
        /\ last.calls = SubSeq(CallOrder(last.call.op), 1, Len(last.calls))
        /\ Len(last.calls) > 1 => ByOwner
        /\ Len(last.calls) > 2 => InCenter(last.call.review_id, last.call.center_id)

\* reached: a non-owner asks to create an answer for a review that is not in the center
C10_Witness ==
    /\ last.call.op = "create_review_answer"
    /\ ByNonOwner
    /\ ~InCenter(last.call.review_id, last.call.center_id)
    /\ last.calls = <<"center.find_by_id">>

(***************************************************************************)
(* C11: update_review_answer and delete_review_answer by the center's      *)
(* owner, for a review of the center that has no answer, fail with         *)
(* NotFoundException carrying DATA_DOES_NOT_EXIST and create no answer:    *)
(* the review is as unanswered after the call as before it.                *)
(***************************************************************************)
C11_Case ==
    /\ last.call.op \in {"update_review_answer", "delete_review_answer"}
    /\ ByOwner
    /\ InCenter(last.call.review_id, last.call.center_id)
    /\ CountOf(last.before, last.call.review_id) = 0

C11_NoAnswerNotFound ==
    C11_Case =>
        /\ Failed("NotFoundException", "DATA_DOES_NOT_EXIST")
        /\ last.error = AnswerNotFound
        /\ CountOf(answers, last.call.review_id) = 0
        /\ answers = last.before

\* reached: an update for an unanswered review while another review has an answer
C11_Witness ==
    /\ C11_Case
    /\ last.call.op = "update_review_answer"
    /\ \E r \in ReviewIds : CountOf(last.before, r) = 1

(***************************************************************************)
(* C12: delete_review_answer by the center's owner, for an answered review *)
(* of the center, removes that review's answer and leaves every other      *)
(* review's answer as it was; the review is unanswered again, so that a    *)
(* create_review_answer by the owner for the same review that follows      *)
(* succeeds, and an update_review_answer or delete_review_answer that      *)
(* follows fails with not-found.                                           *)
(***************************************************************************)
C12_Case ==
    /\ last.call.op = "delete_review_answer"
    /\ ByOwner
    /\ InCenter(last.call.review_id, last.call.center_id)
    /\ CountOf(last.before, last.call.review_id) = 1

C12_Deleted ==
    C12_Case =>
        /\ last.ok
        /\ CountOf(answers, last.call.review_id) = 0
        /\ SameElsewhere(answers, last.before, last.call.review_id)

\* the call after the delete, by the same owner for the same review of the same center
C12_Follows ==
    /\ last'.call.subject = last.call.subject
    /\ last'.call.center_id = last.call.center_id
    /\ last'.call.review_id = last.call.review_id

C12_Step ==
    (C12_Case /\ last' # last /\ C12_Follows) =>
        /\ last'.call.op = "create_review_answer" =>
               /\ last'.ok
               /\ CountOf(answers', last.call.review_id) = 1
        /\ last'.call.op \in {"update_review_answer", "delete_review_answer"} =>
               /\ ~last'.ok
               /\ last'.error.kind = "NotFoundException"
               /\ last'.error.code = "DATA_DOES_NOT_EXIST"
               /\ answers' = answers

C12_DeleteThenCreate == [](C12_Deleted) /\ [][C12_Step]_vars

\* reached: the owner deleted the answer of one review while another review kept its own
C12_Witness ==
    /\ C12_Case
    /\ last.ok
    /\ \E r \in ReviewIds : r # last.call.review_id /\ CountOf(answers, r) = 1

(***************************************************************************)
(* C13: a call of a service operation that ends in an error leaves the     *)
(* stored centers, reviews and answers as they were before the call, and   *)
(* find_reviews_by_center and find_reviews_summary_by_center leave them    *)
(* so when they succeed as well.                                           *)
(***************************************************************************)
ReadOnlyOperations == {"find_reviews_by_center", "find_reviews_summary_by_center"}

C13_Case == Called /\ (~last.ok \/ last.call.op \in ReadOnlyOperations)

C13_AnswersKept == C13_Case => answers = last.before

C13_Step == C13_Case' => (answers' = answers /\ centers' = centers /\ reviews' = reviews)

C13_NoPartialWrite == [](C13_AnswersKept) /\ [][C13_Step]_vars

\* reached: a create that fails on an existing answer, sent with another content
C13_Witness ==
    /\ last.call.op = "create_review_answer"
    /\ ~last.ok
    /\ last.error.code = "ROW_ALREADY_EXIST"
    /\ CopiesIn([review_id |-> last.call.review_id, content |-> last.call.content],
                last.before) = 0
    /\ answers # EmptyBag

(***************************************************************************)
(* C14: when two create_review_answer requests by the center's owner for   *)
(* the same unanswered review run concurrently, their steps interleaved in *)
(* any order, at most one of them inserts an answer and the other fails    *)
(* with ROW_ALREADY_EXIST: the review never has two answers.               *)
(***************************************************************************)
\* both requests are the owner's, for the same review of the owner's center
C14_Case ==
    /\ \A p \in Procs : requests[p].pc = "done"
    /\ \A p \in Procs :
           /\ CenterExists(requests[p].center_id)
           /\ OwnerOf(requests[p].center_id) = requests[p].subject.id
           /\ InCenter(requests[p].review_id, requests[p].center_id)
    /\ requests["p1"].center_id = requests["p2"].center_id
    /\ requests["p1"].review_id = requests["p2"].review_id

C14_Original ==
    /\ \A r \in ReviewIds : CountOf(answers, r) <= 1
    /\ C14_Case =>
           \E p, q \in Procs :
               /\ p # q
               /\ requests[p].ok
               /\ ~requests[q].ok
               /\ requests[q].error = AnswerAlreadyExists

(***************************************************************************)
(* C15: CenterHoldDto accepts a hold difficulty, and a hold name, exactly  *)
(* when it has at least 1 and at most 10 characters, as the validation     *)
(* message says; other lengths are rejected with a validation error, and   *)
(* an accepted value is kept unchanged.                                    *)
(***************************************************************************)
\* the errors of a validator that the framework reports as a validation error
ValidationErrors == {"ValueError", "TypeError"}

C15_Original ==
    checked.dto = "CenterHoldDto" =>
        /\ checked.outcome.kind = "returned" <=>
               (Len(checked.value.str) >= 1 /\ Len(checked.value.str) <= 10)
        /\ checked.outcome.kind = "returned" => checked.outcome.value = checked.value
        /\ checked.outcome.kind # "returned" => checked.outcome.kind \in ValidationErrors

(***************************************************************************)
(* C16: every field validator of CenterRequestDto rejects the value with a *)
(* validation error or returns it unchanged; a youtube_code that starts    *)
(* with '@' is kept as submitted, a youtube_code of None stays None, and   *)
(* an empty youtube_code is rejected with a validation error.              *)
(***************************************************************************)
C16_Original ==
    checked.dto = "CenterRequestDto" =>
        /\ \/ checked.outcome.kind \in ValidationErrors
           \/ checked.outcome.kind = "returned" /\ checked.outcome.value = checked.value
        /\ checked.field = "youtube_code" =>
               IF checked.value = None THEN checked.outcome = Returned(None)
               ELSE IF checked.value.str = <<>>
               THEN checked.outcome.kind \in ValidationErrors
               ELSE checked.value.str[1] = "@" => checked.outcome = Returned(checked.value)
====
